---- MODULE Spec2Model ----
(***************************************************************************)
(* The spiking-network engine of neurotoy (crate snn, src/snn/src/lib.rs): *)
(* the struct Model, its constructors empty/line/grid, set_charge,         *)
(* get_charge and tick; and layout_graph of src/snn/src/render.rs.         *)
(*                                                                         *)
(* Representation.                                                         *)
(*  - A Vec is a sequence; the code's index i is position i + 1 (At, Put). *)
(*  - An f32 potential, threshold or weight is an integer number of units  *)
(*    of 1/Scale, Scale == 10^(MaxTicks + 1).  Every injected charge and   *)
(*    every weight is a multiple of 10^MaxTicks units and a tick divides   *)
(*    by ten at most once, so within MaxTicks ticks every product the code *)
(*    forms is a whole number of units: the arithmetic is that of the      *)
(*    decimal numbers the code's literals denote, without f32 rounding.    *)
(*  - alpha is held in tenths (0.1 is 1), so that 1.0 - alpha is           *)
(*    (10 - alpha) tenths.                                                 *)
(*  - refrac is a u16: 0..U16Max.                                          *)
(***************************************************************************)
EXTENDS Integers, Sequences, FiniteSets, TLC

\* ------------------------------------------------------------- bounds
\* line(count) is built for count in 0..MaxCount
MaxCount == 5
\* grid(rows, cols) is built for rows in 0..MaxRows, cols in 0..MaxCols
MaxRows == 2
MaxCols == 2
\* tick() is called at most MaxTicks times
MaxTicks == 3
\* set_charge is called at most MaxCalls times
MaxCalls == 2
\* the neuron argument of set_charge / get_charge ranges over 0..MaxNeuronArg
MaxNeuronArg == 2

\* ------------------------------------------------------------- numbers
\* 1.0 in units of a potential
Scale == 10 ^ (MaxTicks + 1)
\* largest u16
U16Max == 65535
\* the charges a caller injects: 1.0 and 2.0
Charges == {Scale, 2 * Scale}

\* mutant of DEFAULT_SYNAPSE_WEIGHT: a synapse carries a whole threshold (1.0)
DEFAULT_SYNAPSE_WEIGHT_ONE == Scale

\* const DEFAULT_SYNAPSE_WEIGHT: f32 = 0.5
DEFAULT_SYNAPSE_WEIGHT == Scale \div 2

\* ------------------------------------------------------------- Vec
\* vec[i] and vec[i] = x for a code index i (0-based)
At(vec, i) == vec[i + 1]
Put(vec, i, x) == [vec EXCEPT ![i + 1] = x]
\* vec![x; len]
Repeat(x, len) == [k \in 1..len |-> x]

\* ------------------------------------------------------------- constructors
\* Model::empty()
\* mutant of empty: no refractory period (refrac_len 0)
empty_no_refractory ==
  [ v |-> <<>>, alpha |-> 1, v_th |-> <<>>, v_reset |-> <<>>,
    refrac |-> <<>>, refrac_len |-> 0, spiked |-> <<>>,
    out_offset |-> <<0>>, receiver |-> <<>>, weight |-> <<>>, state |-> <<>> ]

empty ==
  [ v |-> <<>>, alpha |-> 1, v_th |-> <<>>, v_reset |-> <<>>,
    refrac |-> <<>>, refrac_len |-> 2, spiked |-> <<>>,
    out_offset |-> <<0>>, receiver |-> <<>>, weight |-> <<>>, state |-> <<>> ]

\* mutant of line_loop: out_offset counts neurons instead of synapses
RECURSIVE line_loop_offset_neurons(_, _, _)
line_loop_offset_neurons(i, neurons, csr) ==
  IF i >= neurons THEN csr
  ELSE LET pushed == IF i + 1 < neurons
                     THEN [csr EXCEPT !.receiver = Append(@, i + 1),
                                      !.weight = Append(@, DEFAULT_SYNAPSE_WEIGHT),
                                      !.state = Append(@, 0)]
                     ELSE csr
       IN line_loop_offset_neurons(i + 1, neurons,
                                   [pushed EXCEPT !.out_offset = Append(@, i + 1)])

\* mutant of line_loop: the last neuron gets a synapse back to neuron 0
RECURSIVE line_loop_ring(_, _, _)
line_loop_ring(i, neurons, csr) ==
  IF i >= neurons THEN csr
  ELSE LET pushed == [csr EXCEPT !.receiver = Append(@, (i + 1) % neurons),
                                 !.weight = Append(@, DEFAULT_SYNAPSE_WEIGHT),
                                 !.state = Append(@, 0)]
       IN line_loop_ring(i + 1, neurons,
                         [pushed EXCEPT !.out_offset = Append(@, Len(pushed.receiver))])

\* the loop of Model::line: for i in i..neurons, on the vectors built so far
RECURSIVE line_loop(_, _, _)
line_loop(i, neurons, csr) ==
  IF i >= neurons THEN csr
  ELSE LET pushed == IF i + 1 < neurons
                     THEN [csr EXCEPT !.receiver = Append(@, i + 1),
                                      !.weight = Append(@, DEFAULT_SYNAPSE_WEIGHT),
                                      !.state = Append(@, 0)]
                     ELSE csr
       IN line_loop(i + 1, neurons,
                    [pushed EXCEPT !.out_offset = Append(@, Len(pushed.receiver))])

\* Model::line(neurons)
line(neurons) ==
  LET csr == line_loop(0, neurons,
                       [out_offset |-> <<0>>, receiver |-> <<>>,
                        weight |-> <<>>, state |-> <<>>])
  IN [ v |-> Repeat(0, neurons), alpha |-> empty.alpha,
       v_th |-> Repeat(Scale, neurons), v_reset |-> Repeat(0, neurons),
       refrac |-> Repeat(0, neurons), refrac_len |-> empty.refrac_len,
       spiked |-> Repeat(FALSE, neurons),
       out_offset |-> csr.out_offset, receiver |-> csr.receiver,
       weight |-> csr.weight, state |-> csr.state ]

\* one synapse pushed onto the three synapse vectors
push_synapse(csr, target) ==
  [csr EXCEPT !.receiver = Append(@, target),
              !.weight = Append(@, DEFAULT_SYNAPSE_WEIGHT),
              !.state = Append(@, 0)]

\* mutant of grid_cell: the down neighbour is pushed in the last row too
grid_cell_down_unchecked(r, c, rows, cols, csr) ==
  LET up    == IF r > 0 THEN push_synapse(csr, (r - 1) * cols + c) ELSE csr
      down  == push_synapse(up, (r + 1) * cols + c)
      left  == IF c > 0 THEN push_synapse(down, r * cols + (c - 1)) ELSE down
      right == IF c + 1 < cols THEN push_synapse(left, r * cols + (c + 1)) ELSE left
  IN [right EXCEPT !.out_offset = Append(@, Len(right.receiver))]

\* mutant of grid_cell: left and right are pushed before up and down
grid_cell_left_first(r, c, rows, cols, csr) ==
  LET left  == IF c > 0 THEN push_synapse(csr, r * cols + (c - 1)) ELSE csr
      right == IF c + 1 < cols THEN push_synapse(left, r * cols + (c + 1)) ELSE left
      up    == IF r > 0 THEN push_synapse(right, (r - 1) * cols + c) ELSE right
      down  == IF r + 1 < rows THEN push_synapse(up, (r + 1) * cols + c) ELSE up
  IN [down EXCEPT !.out_offset = Append(@, Len(down.receiver))]

\* mutant of grid_cell: the left neighbour is never connected
grid_cell_no_left(r, c, rows, cols, csr) ==
  LET up    == IF r > 0 THEN push_synapse(csr, (r - 1) * cols + c) ELSE csr
      down  == IF r + 1 < rows THEN push_synapse(up, (r + 1) * cols + c) ELSE up
      right == IF c + 1 < cols THEN push_synapse(down, r * cols + (c + 1)) ELSE down
  IN [right EXCEPT !.out_offset = Append(@, Len(right.receiver))]

\* the body of Model::grid's loops for the cell (r, c): up, down, left, right
grid_cell(r, c, rows, cols, csr) ==
  LET up    == IF r > 0 THEN push_synapse(csr, (r - 1) * cols + c) ELSE csr
      down  == IF r + 1 < rows THEN push_synapse(up, (r + 1) * cols + c) ELSE up
      left  == IF c > 0 THEN push_synapse(down, r * cols + (c - 1)) ELSE down
      right == IF c + 1 < cols THEN push_synapse(left, r * cols + (c + 1)) ELSE left
  IN [right EXCEPT !.out_offset = Append(@, Len(right.receiver))]

\* the nested loops of Model::grid, from cell (r, c) on, row by row
RECURSIVE grid_loop(_, _, _, _, _)
grid_loop(r, c, rows, cols, csr) ==
  IF r >= rows THEN csr
  ELSE IF c >= cols THEN grid_loop(r + 1, 0, rows, cols, csr)
  ELSE grid_loop(r, c + 1, rows, cols, grid_cell(r, c, rows, cols, csr))

\* Model::grid(rows, cols)
grid(rows, cols) ==
  LET n == rows * cols
      csr == grid_loop(0, 0, rows, cols,
                       [out_offset |-> <<0>>, receiver |-> <<>>,
                        weight |-> <<>>, state |-> <<>>])
  IN [ v |-> Repeat(0, n), alpha |-> empty.alpha,
       v_th |-> Repeat(Scale, n), v_reset |-> Repeat(0, n),
       refrac |-> Repeat(0, n), refrac_len |-> empty.refrac_len,
       spiked |-> Repeat(FALSE, n),
       out_offset |-> csr.out_offset, receiver |-> csr.receiver,
       weight |-> csr.weight, state |-> csr.state ]

\* ------------------------------------------------------------- set / get
\* mutant of set_charge: the charge is written to the threshold vector
set_charge_threshold(self, neuron, charge) ==
  IF neuron < Len(self.v)
  THEN [result |-> "ok", self |-> [self EXCEPT !.v_th = Put(@, neuron, charge)]]
  ELSE [result |-> "panic", self |-> self]

\* mutant of set_charge: the charge is added to the potential (+= for =)
set_charge_accumulate(self, neuron, charge) ==
  IF neuron < Len(self.v)
  THEN [result |-> "ok",
        self |-> [self EXCEPT !.v = Put(@, neuron, At(self.v, neuron) + charge)]]
  ELSE [result |-> "panic", self |-> self]

\* mutant of set_charge: the injection also starts the refractory counter
set_charge_refractory(self, neuron, charge) ==
  IF neuron < Len(self.v)
  THEN [result |-> "ok",
        self |-> [self EXCEPT !.v = Put(@, neuron, charge),
                              !.refrac = Put(@, neuron, self.refrac_len)]]
  ELSE [result |-> "panic", self |-> self]

\* mutant of set_charge: the injection also clears the neuron's spiked flag
set_charge_clear_flag(self, neuron, charge) ==
  IF neuron < Len(self.v)
  THEN [result |-> "ok",
        self |-> [self EXCEPT !.v = Put(@, neuron, charge),
                              !.spiked = Put(@, neuron, FALSE)]]
  ELSE [result |-> "panic", self |-> self]

\* Model::set_charge: self.v[neuron as usize] = charge.  Indexing a Vec past
\* its length panics before anything is written.
set_charge(self, neuron, charge) ==
  IF neuron < Len(self.v)
  THEN [result |-> "ok", self |-> [self EXCEPT !.v = Put(@, neuron, charge)]]
  ELSE [result |-> "panic", self |-> self]

\* Model::get_charge: self.v[neuron as usize]; value is what is returned
get_charge(self, neuron) ==
  IF neuron < Len(self.v)
  THEN [result |-> "ok", value |-> At(self.v, neuron)]
  ELSE [result |-> "panic", value |-> 0]

\* mutant of neuron_vs: the view is of the thresholds
neuron_vs_thresholds(self) == self.v_th

\* Model::neuron_vs and Model::synapse_states
neuron_vs(self) == self.v
synapse_states(self) == self.state

\* ------------------------------------------------------------- tick
\* mutant of leak: the potential is multiplied by alpha, not by 1 - alpha
leak_by_alpha(x, a) == (x * a) \div 10

\* mutant of leak: alpha is subtracted from the potential (v -= alpha)
leak_subtract(x, a) == x - a * (Scale \div 10)

\* x * (1.0 - alpha), alpha in tenths
leak(x, a) == (x * (10 - a)) \div 10

\* mutant of saturating_sub_1: the counter is not decremented
saturating_sub_0(r) == r

\* mutant of saturating_sub_1: u16::wrapping_sub(r, 1)
wrapping_sub_1(r) == (r - 1) % (U16Max + 1)

\* u16::saturating_sub(r, 1)
saturating_sub_1(r) == IF r >= 1 THEN r - 1 ELSE 0

\* mutant of phase1: a spiked neuron keeps its potential (no v = v_reset)
RECURSIVE phase1_keep_potential(_, _)
phase1_keep_potential(i, self) ==
  IF i >= Len(self.spiked) THEN self
  ELSE phase1_keep_potential(i + 1,
         IF At(self.spiked, i)
         THEN [self EXCEPT !.refrac = Put(@, i, self.refrac_len),
                           !.spiked = Put(@, i, FALSE)]
         ELSE [self EXCEPT !.v = Put(@, i, leak(At(self.v, i), self.alpha))])

\* mutant of phase1: a spiked neuron gets refrac = refrac_len + 1
RECURSIVE phase1_long_refrac(_, _)
phase1_long_refrac(i, self) ==
  IF i >= Len(self.spiked) THEN self
  ELSE phase1_long_refrac(i + 1,
         IF At(self.spiked, i)
         THEN [self EXCEPT !.v = Put(@, i, At(self.v_reset, i)),
                           !.refrac = Put(@, i, self.refrac_len + 1),
                           !.spiked = Put(@, i, FALSE)]
         ELSE [self EXCEPT !.v = Put(@, i, leak(At(self.v, i), self.alpha))])

\* mutant of phase1: a neuron whose flag is clear keeps its potential (no leak)
RECURSIVE phase1_no_leak(_, _)
phase1_no_leak(i, self) ==
  IF i >= Len(self.spiked) THEN self
  ELSE phase1_no_leak(i + 1,
         IF At(self.spiked, i)
         THEN [self EXCEPT !.v = Put(@, i, At(self.v_reset, i)),
                           !.refrac = Put(@, i, self.refrac_len),
                           !.spiked = Put(@, i, FALSE)]
         ELSE self)

\* mutant of phase1: the reset value is added to the potential (+= for =)
RECURSIVE phase1_reset_accumulate(_, _)
phase1_reset_accumulate(i, self) ==
  IF i >= Len(self.spiked) THEN self
  ELSE phase1_reset_accumulate(i + 1,
         IF At(self.spiked, i)
         THEN [self EXCEPT !.v = Put(@, i, At(self.v, i) + At(self.v_reset, i)),
                           !.refrac = Put(@, i, self.refrac_len),
                           !.spiked = Put(@, i, FALSE)]
         ELSE [self EXCEPT !.v = Put(@, i, leak(At(self.v, i), self.alpha))])

\* 1) Reset spiked neurons, leak the others: for i in i..self.spiked.len()
RECURSIVE phase1(_, _)
phase1(i, self) ==
  IF i >= Len(self.spiked) THEN self
  ELSE phase1(i + 1,
         IF At(self.spiked, i)
         THEN [self EXCEPT !.v = Put(@, i, At(self.v_reset, i)),
                           !.refrac = Put(@, i, self.refrac_len),
                           !.spiked = Put(@, i, FALSE)]
         ELSE [self EXCEPT !.v = Put(@, i, leak(At(self.v, i), self.alpha))])

\* 2) Update refrac for neurons: for r in &mut self.refrac
RECURSIVE phase2(_, _)
phase2(i, self) ==
  IF i >= Len(self.refrac) THEN self
  ELSE phase2(i + 1,
         [self EXCEPT !.refrac = Put(@, i, saturating_sub_1(At(self.refrac, i)))])

\* mutant of phase3: the weight overwrites the potential (= for +=)
RECURSIVE phase3_overwrite(_, _)
phase3_overwrite(i, self) ==
  IF i >= Len(self.state) THEN self
  ELSE phase3_overwrite(i + 1,
         IF At(self.state, i) = 1
         THEN [self EXCEPT !.v = Put(@, At(self.receiver, i), At(self.weight, i)),
                           !.state = Put(@, i, 0)]
         ELSE self)

\* mutant of phase3: a delivered synapse stays armed (no self.state[i] = 0)
RECURSIVE phase3_keep_armed(_, _)
phase3_keep_armed(i, self) ==
  IF i >= Len(self.state) THEN self
  ELSE phase3_keep_armed(i + 1,
         IF At(self.state, i) = 1
         THEN LET recv == At(self.receiver, i)
              IN [self EXCEPT !.v = Put(@, recv, At(self.v, recv) + At(self.weight, i))]
         ELSE self)

\* 3) Deliver pending synapses: for i in i..self.state.len()
RECURSIVE phase3(_, _)
phase3(i, self) ==
  IF i >= Len(self.state) THEN self
  ELSE phase3(i + 1,
         IF At(self.state, i) = 1
         THEN LET recv == At(self.receiver, i)
              IN [self EXCEPT !.v = Put(@, recv, At(self.v, recv) + At(self.weight, i)),
                              !.state = Put(@, i, 0)]
         ELSE self)

\* mutant of arm: an armed synapse holds 2
RECURSIVE arm_two(_, _, _)
arm_two(j, end, st) == IF j >= end THEN st ELSE arm_two(j + 1, end, Put(st, j, 2))

\* arm outgoing synapses: for j in j..end { self.state[j] = 1 }
RECURSIVE arm(_, _, _)
arm(j, end, st) == IF j >= end THEN st ELSE arm(j + 1, end, Put(st, j, 1))

\* mutant of spikes: a potential equal to the threshold does not spike
spikes_strict(i, self) ==
  /\ ~(At(self.refrac, i) > 0)
  /\ ~(At(self.v, i) <= At(self.v_th, i))

\* mutant of spikes: the threshold test is dropped
spikes_no_threshold(i, self) == ~(At(self.refrac, i) > 0)

\* whether phase 4 lets neuron i spike: neither `continue` is taken
spikes(i, self) ==
  /\ ~(At(self.refrac, i) > 0)
  /\ ~(At(self.v, i) < At(self.v_th, i))

\* mutant of phase4: the armed range starts one synapse early (start - 1)
RECURSIVE phase4_arm_early(_, _)
phase4_arm_early(i, self) ==
  IF i >= Len(self.v) THEN self
  ELSE phase4_arm_early(i + 1,
         IF spikes(i, self)
         THEN [self EXCEPT !.spiked = Put(@, i, TRUE),
                           !.state = arm(IF At(self.out_offset, i) > 0
                                         THEN At(self.out_offset, i) - 1 ELSE 0,
                                         At(self.out_offset, i + 1), @)]
         ELSE self)

\* 4) Update spikes and arm synapses for next tick: for i in i..self.v.len()
RECURSIVE phase4(_, _)
phase4(i, self) ==
  IF i >= Len(self.v) THEN self
  ELSE phase4(i + 1,
         IF spikes(i, self)
         THEN [self EXCEPT !.spiked = Put(@, i, TRUE),
                           !.state = arm(At(self.out_offset, i),
                                         At(self.out_offset, i + 1), @)]
         ELSE self)

\* what tick() may change: the four vectors it writes
Dyn(self) ==
  [v |-> self.v, refrac |-> self.refrac, spiked |-> self.spiked, state |-> self.state]

\* mutant of tick_phases: spikes are detected and synapses armed before the
\* armed synapses are delivered, so a synapse delivers in the tick that arms it
tick_phases_same_tick(self) ==
  LET p1 == phase1(0, self)
      p2 == phase2(0, p1)
      p3 == phase4(0, p2)
      p4 == phase3(0, p3)
  IN <<p1, p2, p3, p4>>

\* Model::tick: the model after each of its phases, <<after 1), .., after 4)>>
tick_phases(self) ==
  LET p1 == phase1(0, self)
      p2 == phase2(0, p1)
      p3 == phase3(0, p2)
      p4 == phase4(0, p3)
  IN <<p1, p2, p3, p4>>

\* Model::tick: the model when tick() returns
tick(self) == tick_phases(self)[4]

\* ------------------------------------------------------------- app
\* const MODEL_TICK_INTERVAL: Duration = Duration::from_millis(500)
MODEL_TICK_INTERVAL == 500

\* Renderer::new: model_renderer is None, no copy of a model is held
NoModelRenderer == [neuron_vs |-> <<>>, synapse_states |-> <<>>]

\* mutant of update_model: the synapse states are not refreshed
update_model_neurons_only(renderer, self) ==
  [renderer EXCEPT !.neuron_vs = neuron_vs(self)]

\* ModelRenderer::update_model: each CPU copy is cleared and extended with
\* the model's view
update_model(renderer, self) ==
  [renderer EXCEPT !.neuron_vs = <<>> \o neuron_vs(self),
                   !.synapse_states = <<>> \o synapse_states(self)]

\* ModelRenderer::relayout, as far as the copies of the model's state go (the
\* instance buffers it fills are layout_graph's result)
relayout(renderer, self) ==
  [renderer EXCEPT !.neuron_vs = <<>> \o neuron_vs(self),
                   !.synapse_states = <<>> \o synapse_states(self)]

\* Renderer::set_model: ModelRenderer::new ends with s.relayout(model), and
\* an existing ModelRenderer is told to relayout(model)
set_model(renderer, self) == relayout(renderer, self)

\* mutant of tick_due: the interval is halved
tick_due_half(elapsed) == 2 * elapsed >= MODEL_TICK_INTERVAL

\* self.last_model_tick.elapsed() >= MODEL_TICK_INTERVAL
tick_due(elapsed) == elapsed >= MODEL_TICK_INTERVAL

\* App::tick_model: self.model.tick(); self.renderer.update_model(&self.model)
tick_model(self, renderer) ==
  LET ph == tick_phases(self)
  IN [phases |-> ph, model |-> ph[4], renderer |-> update_model(renderer, ph[4])]

\* ------------------------------------------------------------- state
VARIABLES
  v, alpha, v_th, v_reset, refrac, refrac_len, spiked,   \* the neurons
  out_offset, receiver, weight, state,                   \* the synapses
  hist,     \* the constructor call, then every call that wrote to the model
            \* or panicked, in the order they were made
  phases,   \* the latest tick(): Dyn of the model at entry and after each
            \* phase, <<at entry, after 1), .., after 4)>>; <<>> before the first
  fired     \* per tick() made, the set of neurons (code indices) for which
            \* phase 4 took the spike branch

VARIABLES
  layout_pc,          \* where layout_graph(&model) stands: "idle" before the
                      \* call, "parse" while the report's lines are read,
                      \* "done" once it has returned
  text,               \* the plain-format report the layout engine returned,
                      \* as text.lines() yields it (<<>> before, and on Err)
  parsed,             \* how many lines of text the parsing loop has consumed
  neuron_positions,   \* layout_graph's Vec<NeuronPosition>
  synapse_positions   \* layout_graph's Vec<SynapsePosition>

VARIABLES
  clock,               \* what Instant::now() returns, in ms since App::new
  last_update,         \* App.last_update
  last_model_tick,     \* App.last_model_tick
  cpu_neuron_vs,       \* the renderer's CPU copy of neuron_vs
  cpu_synapse_states   \* the renderer's CPU copy of synapse_states

fields == <<v, alpha, v_th, v_reset, refrac, refrac_len, spiked,
            out_offset, receiver, weight, state>>
layout == <<layout_pc, text, parsed, neuron_positions, synapse_positions>>
app == <<clock, last_update, last_model_tick, cpu_neuron_vs, cpu_synapse_states>>
vars == <<fields, hist, phases, fired, layout, app>>

\* the struct Model as it stands
model ==
  [ v |-> v, alpha |-> alpha, v_th |-> v_th, v_reset |-> v_reset,
    refrac |-> refrac, refrac_len |-> refrac_len, spiked |-> spiked,
    out_offset |-> out_offset, receiver |-> receiver, weight |-> weight,
    state |-> state ]

\* the struct Model becomes m
Becomes(m) ==
  /\ v' = m.v /\ alpha' = m.alpha /\ v_th' = m.v_th /\ v_reset' = m.v_reset
  /\ refrac' = m.refrac /\ refrac_len' = m.refrac_len /\ spiked' = m.spiked
  /\ out_offset' = m.out_offset /\ receiver' = m.receiver
  /\ weight' = m.weight /\ state' = m.state

\* one call: its name, its arguments (0 where it has none) and how it ended
Call(op, x, y, result) == [op |-> op, x |-> x, y |-> y, result |-> result]

\* the constructor calls a caller may make
Constructions ==
  {Call("empty", 0, 0, "ok")}
    \cup {Call("line", count, 0, "ok") : count \in 0..MaxCount}
    \cup {Call("grid", rows, cols, "ok") : rows \in 0..MaxRows, cols \in 0..MaxCols}

\* what a constructor call returns
Construct(call) ==
  CASE call.op = "empty" -> empty
    [] call.op = "line" -> line(call.x)
    [] call.op = "grid" -> grid(call.x, call.y)

LastCall == hist[Len(hist)]
\* a panic unwinds the caller: no further call is made on the model
Panicked == LastCall.result = "panic"
CountOf(ops) == Cardinality({k \in 1..Len(hist) : hist[k].op \in ops})
Ticks == CountOf({"tick"})
Calls == CountOf({"set_charge"})

Init ==
  \E call \in Constructions :
    /\ hist = <<call>>
    /\ phases = <<>>
    /\ fired = <<>>
    /\ layout_pc = "idle" /\ text = <<>> /\ parsed = 0
    /\ neuron_positions = <<>> /\ synapse_positions = <<>>
    /\ LET m == Construct(call)
       IN /\ v = m.v /\ alpha = m.alpha /\ v_th = m.v_th /\ v_reset = m.v_reset
          /\ refrac = m.refrac /\ refrac_len = m.refrac_len /\ spiked = m.spiked
          /\ out_offset = m.out_offset /\ receiver = m.receiver
          /\ weight = m.weight /\ state = m.state
          /\ clock = 0 /\ last_update = 0 /\ last_model_tick = 0
          /\ cpu_neuron_vs = set_model(NoModelRenderer, m).neuron_vs
          /\ cpu_synapse_states = set_model(NoModelRenderer, m).synapse_states

\* model.tick()
Tick ==
  /\ ~Panicked
  /\ Ticks < MaxTicks
  /\ LET ph == tick_phases(model)
     IN /\ Becomes(ph[4])
        /\ phases' = <<Dyn(model), Dyn(ph[1]), Dyn(ph[2]), Dyn(ph[3]), Dyn(ph[4])>>
        /\ fired' = Append(fired, {i \in 0..(Len(v) - 1) : spikes(i, ph[3])})
  /\ hist' = Append(hist, Call("tick", 0, 0, "ok"))
  /\ UNCHANGED <<layout, app>>

\* model.set_charge(neuron, charge)
SetCharge(neuron, charge) ==
  /\ ~Panicked
  /\ Calls < MaxCalls
  /\ LET r == set_charge(model, neuron, charge)
     IN /\ Becomes(r.self)
        /\ hist' = Append(hist, Call("set_charge", neuron, charge, r.result))
  /\ UNCHANGED <<phases, fired, layout, app>>

\* model.get_charge(neuron): a read through &self, which leaves the model as
\* it is and returns get_charge(model, neuron).value, or panics
GetCharge(neuron) ==
  /\ ~Panicked
  /\ LET r == get_charge(model, neuron)
     IN hist' = IF r.result = "ok" THEN hist
                ELSE Append(hist, Call("get_charge", neuron, 0, r.result))
  /\ UNCHANGED <<fields, phases, fired, layout, app>>

Next ==
  \/ Tick
  \/ \E neuron \in 0..MaxNeuronArg, charge \in Charges : SetCharge(neuron, charge)
  \/ \E neuron \in 0..MaxNeuronArg : GetCharge(neuron)

Spec == Init /\ [][Next]_vars

\* ------------------------------------------------------------- shape
TypeOK ==
  /\ Len(v) = Len(v_th) /\ Len(v) = Len(v_reset) /\ Len(v) = Len(refrac)
  /\ Len(v) = Len(spiked) /\ Len(out_offset) = Len(v) + 1
  /\ Len(receiver) = Len(weight) /\ Len(receiver) = Len(state)
  /\ \A k \in 1..Len(refrac) : refrac[k] \in 0..U16Max
  /\ \A k \in 1..Len(v) : v[k] \in Int

\* ------------------------------------------------------------- vocabulary
\* neuron and synapse indices of the model, as the code counts them
Neurons == 0..(Len(v) - 1)
Synapses == 0..(Len(state) - 1)

\* the neuron whose range out_offset[i]..out_offset[i+1] holds synapse j
Source(j) ==
  CHOOSE i \in Neurons : At(out_offset, i) <= j /\ j < At(out_offset, i + 1)

\* the sum of the weights of a set of synapses
RECURSIVE SumWeights(_)
SumWeights(S) ==
  IF S = {} THEN 0
  ELSE LET j == CHOOSE x \in S : TRUE
       IN At(weight, j) + SumWeights(S \ {j})

\* this step is a call of tick()
TickStep == Len(hist') = Len(hist) + 1 /\ hist'[Len(hist')].op = "tick"

\* the latest tick(): the model at entry and after phases 1) to 4)
AtEntry == phases[1]
After1 == phases[2]
After2 == phases[3]
After3 == phases[4]
After4 == phases[5]
Ticked == phases # <<>>

\* the neurons that fired in the latest tick(), none before the first
FiredLast == IF fired = <<>> THEN {} ELSE fired[Len(fired)]

\* the synapses that were armed when phase 3 of the latest tick() began
Delivered == {j \in Synapses : At(After2.state, j) = 1}

\* ------------------------------------------------------------- claims

\* C1. One-tick synaptic delay.  In every tick T+1, phase 3 adds to each
\* neuron r exactly the weights of the synapses into r whose source fired in
\* the tick before (T), no other phase of T+1 adds a weight, and a synapse
\* whose source fires in T+1 is not among those delivered in T+1: it is left
\* armed, and phase 4 of T+1 changes no potential.
C1_OneTickDelay ==
  [][TickStep =>
       /\ \A r \in Neurons :
            /\ At(After3.v, r)' =
                 At(After2.v, r)'
                   + SumWeights({j \in Synapses :
                                   At(receiver, j) = r /\ Source(j) \in FiredLast})
            /\ At(v', r) = At(After3.v, r)'
            /\ At(After2.v, r)' = At(After1.v, r)'
       /\ \A j \in Synapses :
            Source(j) \in FiredLast' =>
              /\ Source(j) \notin FiredLast
              /\ At(state', j) = 1]_vars

\* C1 witness: a tick in which a synapse delivered, its source having fired
\* in the tick before
C1_Witness ==
  /\ Len(fired) >= 2
  /\ \E j \in Synapses :
       /\ Source(j) \in fired[Len(fired) - 1]
       /\ At(v, At(receiver, j)) >= At(weight, j)
       /\ At(After3.v, At(receiver, j)) > At(After2.v, At(receiver, j))

\* C2. Phase 1.  In every tick, a neuron that fired in the tick before has
\* its spiked flag set at entry and phase 1 gives it v = v_reset,
\* refrac = refrac_len and a cleared flag; every other neuron has its flag
\* clear at entry and phase 1 multiplies its v by (1 - alpha) and leaves its
\* refrac alone.  So a reset happens in tick T+1 exactly for the neurons that
\* fired in tick T.
C2_Phase1 ==
  [][TickStep =>
       \A i \in Neurons :
         IF i \in FiredLast
         THEN /\ At(spiked, i)
              /\ At(After1.v, i)' = At(v_reset, i)
              /\ At(After1.refrac, i)' = refrac_len
              /\ ~At(After1.spiked, i)'
         ELSE /\ ~At(spiked, i)
              /\ 10 * At(After1.v, i)' = (10 - alpha) * At(v, i)
              /\ At(After1.refrac, i)' = At(refrac, i)
              /\ ~At(After1.spiked, i)']_vars

\* C2 witness: a tick whose phase 1 reset a neuron that held a potential and
\* leaked another that held one
C2_Witness ==
  /\ Ticked
  /\ \E i, k \in Neurons :
       /\ At(AtEntry.spiked, i) /\ At(AtEntry.v, i) > 0 /\ At(After1.v, i) = 0
       /\ ~At(AtEntry.spiked, k) /\ At(AtEntry.v, k) > At(After1.v, k)

\* C3. Phase 3.  In every tick, phase 3 adds to each neuron the sum of the
\* weights of all synapses into it that were armed (state 1) when the phase
\* began, clears every state to 0, and changes nothing else; synapses with
\* state 0 add nothing.
C3_Phase3 ==
  Ticked =>
    /\ \A r \in Neurons :
         At(After3.v, r) =
           At(After2.v, r)
             + SumWeights({j \in Synapses :
                             At(After2.state, j) = 1 /\ At(receiver, j) = r})
    /\ \A j \in Synapses : At(After3.state, j) = 0
    /\ After3.refrac = After2.refrac
    /\ After3.spiked = After2.spiked

\* C3 witness: a phase 3 in which two armed synapses had the same receiver
\* while a third synapse was idle
C3_Witness ==
  /\ Ticked
  /\ \E j, k \in Delivered : j # k /\ At(receiver, j) = At(receiver, k)
  /\ \E j \in Synapses : j \notin Delivered

C5_IndexOutOfRange ==
  [][(/\ Len(hist') = Len(hist) + 1
      /\ LastCall'.op \in {"set_charge", "get_charge"}
      /\ LastCall'.x >= Len(v))
       => (LastCall'.result = "IndexOutOfRange" /\ UNCHANGED fields)]_vars

\* the delay scenario: line(2), set_charge(0, 2.0), then k calls of tick()
DelayScenario(k) ==
  <<Call("line", 2, 0, "ok"), Call("set_charge", 0, 2 * Scale, "ok")>>
    \o [t \in 1..k |-> Call("tick", 0, 0, "ok")]

\* C6. Delay scenario.  On line(2), after set_charge(0, 2.0) the first tick
\* leaves v = [1.8, 0.0], spiked[0] set and synapse 0 armed; the second tick
\* leaves v = [0.0, 0.5], spiked[0] clear, synapse 0 idle, and neuron 1 has
\* not spiked.
C6_DelayScenario ==
  /\ hist = DelayScenario(1) =>
       /\ v = <<(18 * Scale) \div 10, 0>>
       /\ spiked = <<TRUE, FALSE>>
       /\ state = <<1>>
  /\ hist = DelayScenario(2) =>
       /\ v = <<0, Scale \div 2>>
       /\ spiked = <<FALSE, FALSE>>
       /\ state = <<0>>
       /\ fired = <<{0}, {}>>

\* C6 witness: the scenario has run to its second tick and neuron 1 holds 0.5
C6_Witness == hist = DelayScenario(2) /\ At(v, 1) = Scale \div 2

NoDelivery(i) == \A j \in Delivered : At(receiver, j) # i

\* C8 as claimed: a neuron that neither spikes in a tick nor receives a
\* delivery in it ends the tick with v_before * (1 - alpha)
C8_LeakAsClaimed ==
  Ticked =>
    \A i \in Neurons :
      (i \notin FiredLast /\ NoDelivery(i)) =>
        10 * At(After4.v, i) = (10 - alpha) * At(AtEntry.v, i)

\* C8, amended.  A neuron that neither spikes in a tick, nor receives a
\* delivery in it, nor enters it with its spiked flag set (it did not fire in
\* the tick before, so phase 1 does not reset it) ends the tick with exactly
\* v_before * (1 - alpha).
C8_Leak ==
  Ticked =>
    \A i \in Neurons :
      (i \notin FiredLast /\ NoDelivery(i) /\ ~At(AtEntry.spiked, i)) =>
        10 * At(After4.v, i) = (10 - alpha) * At(AtEntry.v, i)

\* C8 witness: a tick in which such a neuron entered with a potential that
\* had leaked before, and another neuron was reset instead
C8_Witness ==
  /\ Ticked
  /\ \E i, k \in Neurons :
       /\ i \notin FiredLast /\ NoDelivery(i) /\ ~At(AtEntry.spiked, i)
       /\ At(AtEntry.v, i) = (9 * Scale) \div 10
       /\ At(After4.v, i) = (81 * Scale) \div 100
       /\ k \notin FiredLast /\ NoDelivery(k) /\ At(AtEntry.spiked, k)

\* neuron i fired in none of the latest k ticks, and there were that many
Quiet(i, k) ==
  /\ k <= Len(fired)
  /\ \A t \in (Len(fired) - k + 1)..Len(fired) : i \notin fired[t]

\* C9. Refractory floor.  In every reachable state, a neuron that did not
\* fire in any of the latest refrac_len ticks has refrac = 0.
C9_RefractoryFloor ==
  \A i \in Neurons : Quiet(i, refrac_len) => At(refrac, i) = 0

\* C9 witness: a neuron fired, refrac_len ticks in which it did not fire
\* followed, the first of them set its counter, and the counter is back at 0
C9_Witness ==
  \E i \in Neurons :
    /\ Quiet(i, refrac_len)
    /\ Len(fired) > refrac_len
    /\ i \in fired[Len(fired) - refrac_len]
    /\ At(AtEntry.refrac, i) = 1
    /\ At(refrac, i) = 0

\* C10. Phase 2.  In every tick, phase 2 takes 1 from every positive refrac
\* and leaves a refrac of 0 at 0, changing nothing else; and in every
\* reachable state every refrac lies in 0..refrac_len: it never wraps around
\* to the top of the u16 range.
C10_Phase2 ==
  /\ \A i \in Neurons : At(refrac, i) \in 0..refrac_len
  /\ Ticked =>
       /\ \A i \in Neurons :
            At(After2.refrac, i) =
              IF At(After1.refrac, i) > 0 THEN At(After1.refrac, i) - 1 ELSE 0
       /\ After2.v = After1.v
       /\ After2.spiked = After1.spiked
       /\ After2.state = After1.state

\* C10 witness: a phase 2 that found one counter positive and another at 0
C10_Witness ==
  /\ Ticked
  /\ \E i, k \in Neurons :
       /\ At(After1.refrac, i) = refrac_len
       /\ At(After2.refrac, i) = refrac_len - 1
       /\ At(After1.refrac, k) = 0 /\ At(After2.refrac, k) = 0

\* the constructor call that built the model, and the n it was asked for
Built == hist[1]
BuiltNeurons ==
  CASE Built.op = "empty" -> 0
    [] Built.op = "line" -> Built.x
    [] Built.op = "grid" -> Built.x * Built.y

\* the synapses of neuron i: out_offset[i]..out_offset[i+1]
Outgoing(i) == {j \in Synapses : At(out_offset, i) <= j /\ j < At(out_offset, i + 1)}

\* C11. Sub-threshold injection.  On a freshly built model, set_charge(0, 1.0)
\* followed by one tick() leaves v[0] = 0.9, spiked[0] clear and no outgoing
\* synapse of neuron 0 armed: the leak comes before the threshold test.
C11_SubThreshold ==
  (/\ Len(hist) = 3
   /\ hist[2] = Call("set_charge", 0, Scale, "ok")
   /\ hist[3] = Call("tick", 0, 0, "ok"))
    => /\ At(v, 0) = (9 * Scale) \div 10
       /\ ~At(spiked, 0)
       /\ 0 \notin fired[1]
       /\ \A j \in Outgoing(0) : At(state, j) = 0

\* C11 witness: the injection and the tick were made on a model in which
\* neuron 0 has an outgoing synapse
C11_Witness ==
  /\ Len(hist) = 3
  /\ hist[2] = Call("set_charge", 0, Scale, "ok")
  /\ hist[3] = Call("tick", 0, 0, "ok")
  /\ Outgoing(0) # {}
  /\ At(AtEntry.v, 0) = At(v_th, 0)

\* every index tick() would use on the model as it stands is within the
\* vector it indexes: phase 1 (v, v_reset, refrac by i < spiked.len()),
\* phase 3 (receiver, weight by i < state.len(); v by receiver[i]) and
\* phase 4 (refrac, v_th, out_offset[i], out_offset[i + 1] by i < v.len();
\* state by j < out_offset[i + 1])
TickInBounds ==
  /\ Len(spiked) <= Len(v) /\ Len(spiked) <= Len(v_reset)
  /\ Len(spiked) <= Len(refrac)
  /\ Len(state) <= Len(receiver) /\ Len(state) <= Len(weight)
  /\ \A j \in Synapses : At(receiver, j) \in 0..(Len(v) - 1)
  /\ Len(v) <= Len(refrac) /\ Len(v) <= Len(v_th) /\ Len(v) + 1 <= Len(out_offset)
  /\ \A i \in Neurons :
       At(out_offset, i) < At(out_offset, i + 1) =>
         (At(out_offset, i) >= 0 /\ At(out_offset, i + 1) <= Len(state))

\* C13. tick() is total.  In every state reached from empty(), line(count) or
\* grid(rows, cols) by in-range set_charge calls and tick calls, every index
\* the next tick() uses is within bounds, so tick() completes.
C13_TickTotal == ~Panicked => TickInBounds

\* C13 witness: tick() has run twice, delivering armed synapses and arming
\* others, and the model it left can be ticked again
C13_Witness ==
  /\ Len(fired) = 2
  /\ LastCall.op = "tick"
  /\ Delivered # {}
  /\ \E j \in Synapses : At(state, j) = 1
  /\ TickInBounds

\* C14. Topology and parameters are immutable.  After any sequence of
\* set_charge, get_charge and tick calls, receiver, out_offset, weight, v_th,
\* v_reset, alpha and refrac_len are what the constructor call returned, and
\* v, refrac, spiked and state have the lengths it gave them (n and e).
C14_TopologyImmutable ==
  LET built == Construct(Built)
  IN /\ receiver = built.receiver /\ out_offset = built.out_offset
     /\ weight = built.weight /\ v_th = built.v_th /\ v_reset = built.v_reset
     /\ alpha = built.alpha /\ refrac_len = built.refrac_len
     /\ Len(v) = Len(built.v) /\ Len(refrac) = Len(built.refrac)
     /\ Len(spiked) = Len(built.spiked) /\ Len(state) = Len(built.state)

\* C14 witness: set_charge and tick have both acted, and v, refrac, spiked and
\* state all differ from what the constructor gave
C14_Witness ==
  /\ Calls >= 1 /\ Ticks >= 2
  /\ \E i \in Neurons : At(v, i) # 0
  /\ \E i \in Neurons : At(refrac, i) # 0
  /\ \E i \in Neurons : At(spiked, i)
  /\ \E j \in Synapses : At(state, j) # 0
  /\ v # Construct(Built).v /\ state # Construct(Built).state

\* the receivers of neuron i's outgoing synapses, in CSR order
OutgoingSeq(i) == SubSeq(receiver, At(out_offset, i) + 1, At(out_offset, i + 1))

\* C15. Every constructor result is a valid CSR structure, zero arguments
\* included: with n the neuron count the arguments ask for, v has length n,
\* out_offset has length n + 1, starts at 0, never decreases and ends at
\* e = len(receiver) = len(weight) = len(state); every receiver is below n;
\* with a zero dimension n = 0, e = 0 and out_offset = [0].
C15_ValidCSR ==
  Len(hist) = 1 =>
    /\ Len(v) = BuiltNeurons
    /\ Len(out_offset) = BuiltNeurons + 1
    /\ At(out_offset, 0) = 0
    /\ \A i \in 0..(BuiltNeurons - 1) : At(out_offset, i) <= At(out_offset, i + 1)
    /\ At(out_offset, BuiltNeurons) = Len(receiver)
    /\ Len(receiver) = Len(weight) /\ Len(weight) = Len(state)
    /\ \A j \in 1..Len(receiver) : receiver[j] \in 0..(BuiltNeurons - 1)
    /\ (Built.op = "empty" \/ Built.x = 0 \/ (Built.op = "grid" /\ Built.y = 0))
         => (Len(v) = 0 /\ Len(receiver) = 0 /\ out_offset = <<0>>)

\* C15 witness: a constructor has returned a model with neurons that have
\* zero, one and two outgoing synapses
C15_Witness ==
  /\ Len(hist) = 1
  /\ Built = Call("grid", 2, 2, "ok")
  /\ out_offset = <<0, 2, 4, 6, 8>>
  /\ Len(receiver) = 8

\* C16. line(count): every neuron i < count - 1 has exactly one outgoing
\* synapse, to i + 1; the last neuron has none; synapse j belongs to neuron j;
\* e = max(count - 1, 0); line(5) has out_offset = [0,1,2,3,4,4] and
\* receiver = [1,2,3,4].
C16_LineShape ==
  (Len(hist) = 1 /\ Built.op = "line") =>
    LET count == Built.x
    IN /\ \A i \in 0..(count - 2) : OutgoingSeq(i) = <<i + 1>>
       /\ count >= 1 => OutgoingSeq(count - 1) = <<>>
       /\ \A j \in Synapses : Source(j) = j
       /\ Len(receiver) = (IF count >= 1 THEN count - 1 ELSE 0)
       /\ count = 5 => (out_offset = <<0, 1, 2, 3, 4, 4>> /\ receiver = <<1, 2, 3, 4>>)

\* C16 witness: line(5) has returned
C16_Witness ==
  /\ Len(hist) = 1
  /\ Built = Call("line", 5, 0, "ok")
  /\ Len(v) = 5 /\ Len(receiver) = 4

\* the orthogonal neighbours of cell (r, c) that lie inside a rows x cols
\* grid, in the order up, down, left, right
NeighboursOf(r, c, rows, cols) ==
  LET up    == IF r > 0 THEN <<(r - 1) * cols + c>> ELSE <<>>
      down  == IF r + 1 < rows THEN <<(r + 1) * cols + c>> ELSE <<>>
      left  == IF c > 0 THEN <<r * cols + (c - 1)>> ELSE <<>>
      right == IF c + 1 < cols THEN <<r * cols + (c + 1)>> ELSE <<>>
  IN up \o down \o left \o right

Edges == {<<Source(j), At(receiver, j)>> : j \in Synapses}

\* C18. grid(rows, cols) with rows, cols >= 1 has
\* 2 * (rows * (cols - 1) + cols * (rows - 1)) synapses (8 for grid(2, 2));
\* i -> j is an edge iff j -> i is; no edge is a self-loop; no edge occurs twice.
C18_GridEdges ==
  (Len(hist) = 1 /\ Built.op = "grid" /\ Built.x >= 1 /\ Built.y >= 1) =>
    LET rows == Built.x
        cols == Built.y
    IN /\ Len(receiver) = 2 * (rows * (cols - 1) + cols * (rows - 1))
       /\ (rows = 2 /\ cols = 2) => Len(receiver) = 8
       /\ \A edge \in Edges : <<edge[2], edge[1]>> \in Edges
       /\ \A edge \in Edges : edge[1] # edge[2]
       /\ Cardinality(Edges) = Len(receiver)

\* C18 witness: grid(2, 2) has returned with its eight edges
C18_Witness ==
  /\ Len(hist) = 1
  /\ Built = Call("grid", 2, 2, "ok")
  /\ Cardinality(Edges) = 8
  /\ <<0, 1>> \in Edges /\ <<1, 0>> \in Edges

\* C19. Initial state of every constructor: every neuron has v = 0,
\* v_th = 1.0, v_reset = 0.0, refrac = 0 and spiked = false; every synapse has
\* weight 0.5 and state 0; alpha = 0.1 (one tenth) and refrac_len = 2.
C19_InitialState ==
  Len(hist) = 1 =>
    /\ v = Repeat(0, BuiltNeurons)
    /\ v_th = Repeat(Scale, BuiltNeurons)
    /\ v_reset = Repeat(0, BuiltNeurons)
    /\ refrac = Repeat(0, BuiltNeurons)
    /\ spiked = Repeat(FALSE, BuiltNeurons)
    /\ \A j \in 1..Len(receiver) : 2 * weight[j] = Scale /\ state[j] = 0
    /\ Len(weight) = Len(receiver) /\ Len(state) = Len(receiver)
    /\ alpha = 1
    /\ refrac_len = 2

\* C19 witness: a constructor has returned a model with neurons and synapses
C19_Witness ==
  /\ Len(hist) = 1
  /\ Built = Call("line", 3, 0, "ok")
  /\ Len(v_th) = 3
  /\ Len(weight) = 2

\* C20. Query views.  After any sequence of set_charge and tick calls,
\* neuron_vs() has length n and its entry i is what get_charge(i) returns,
\* which after set_charge(i, c) is c; synapse_states() has length e and its
\* entry j is 1 if the source of synapse j fired in the latest tick and 0 if
\* it did not or no tick has run.
C20_QueryViews ==
  /\ Len(neuron_vs(model)) = BuiltNeurons
  /\ \A i \in 0..(BuiltNeurons - 1) :
       /\ get_charge(model, i).result = "ok"
       /\ get_charge(model, i).value = At(neuron_vs(model), i)
  /\ (LastCall.op = "set_charge" /\ LastCall.result = "ok")
       => At(neuron_vs(model), LastCall.x) = LastCall.y
  /\ Len(synapse_states(model)) = Len(receiver)
  /\ \A j \in 0..(Len(receiver) - 1) :
       At(synapse_states(model), j) = (IF Source(j) \in FiredLast THEN 1 ELSE 0)

\* C20 witness: after a set_charge and ticks the views show a non-zero
\* potential and both armed and idle synapses
C20_Witness ==
  /\ Calls >= 1 /\ Ticks >= 1
  /\ \E i \in Neurons : At(neuron_vs(model), i) > 0
  /\ \E j \in Synapses : At(synapse_states(model), j) = 1
  /\ \E j \in Synapses : At(synapse_states(model), j) = 0

\* ------------------------------------------------------------- layout_graph
\* layout_graph(&model) of src/snn/src/render.rs.  A coordinate (an f32) is an
\* integer number of units of 1/PosScale; a line of the report is the
\* sequence of its characters; the report is the sequence of its lines.

\* the engine's report has at most MaxLines lines
MaxLines == 2
\* 1.0 in units of a coordinate
PosScale == 10 ^ 2

\* NeuronPosition { center, radius } and SynapsePosition { end1, end2 }
NeuronPosition(x, y, radius) == [center |-> <<x, y>>, radius |-> radius]
SynapsePosition(end1, end2) == [end1 |-> end1, end2 |-> end2]

\* slice.get(i).copied().unwrap_or(default)
GetOr(vec, i, default) == IF i < Len(vec) THEN At(vec, i) ELSE default

Whitespace == {" ", "\t"}
Digits == <<"0", "1", "2", "3", "4", "5", "6", "7", "8", "9">>
IsDigit(ch) == \E d \in 1..Len(Digits) : Digits[d] = ch
DigitValue(ch) == (CHOOSE d \in 1..Len(Digits) : Digits[d] = ch) - 1
AllDigits(str) == \A k \in 1..Len(str) : IsDigit(str[k])

\* the number a string of digits denotes (0 for the empty string)
RECURSIVE DigitsValue(_, _)
DigitsValue(str, acc) ==
  IF str = <<>> THEN acc
  ELSE DigitsValue(Tail(str), acc * 10 + DigitValue(Head(str)))

\* str::split_whitespace: chars still to read, the word being read, the
\* words read so far
RECURSIVE split_from(_, _, _)
split_from(chars, word, words) ==
  LET closed == IF word = <<>> THEN words ELSE Append(words, word)
  IN IF chars = <<>> THEN closed
     ELSE IF Head(chars) \in Whitespace THEN split_from(Tail(chars), <<>>, closed)
     ELSE split_from(Tail(chars), Append(word, Head(chars)), words)

split_whitespace(chars) == split_from(chars, <<>>, <<>>)

\* name.strip_prefix('n')
strip_prefix_n(name) ==
  IF name # <<>> /\ Head(name) = "n"
  THEN [some |-> TRUE, rest |-> Tail(name)]
  ELSE [some |-> FALSE, rest |-> <<>>]

\* str::parse::<usize>: an optional '+', then one digit or more
parse_usize(str) ==
  LET body == IF str # <<>> /\ Head(str) = "+" THEN Tail(str) ELSE str
  IN IF body # <<>> /\ AllDigits(body)
     THEN [ok |-> TRUE, value |-> DigitsValue(body, 0)]
     ELSE [ok |-> FALSE, value |-> 0]

\* the position of the first '.' of str, Len(str) + 1 if it has none
FirstDot(str) ==
  IF \E k \in 1..Len(str) : str[k] = "."
  THEN CHOOSE k \in 1..Len(str) : str[k] = "." /\ \A l \in 1..(k - 1) : str[l] # "."
  ELSE Len(str) + 1

\* str::parse::<f32> on decimal notation: an optional sign, digits, and an
\* optional '.' followed by digits, with a digit on at least one side (the
\* exponent, "inf" and "nan" forms are not among the tokens of ReportLines).
\* The value is exact for up to two fractional digits.
parse_f32(str) ==
  LET signed == str # <<>> /\ Head(str) \in {"+", "-"}
      body   == IF signed THEN Tail(str) ELSE str
      dot    == FirstDot(body)
      whole  == SubSeq(body, 1, dot - 1)
      frac   == SubSeq(body, dot + 1, Len(body))
      units  == DigitsValue(whole, 0) * PosScale
                  + (DigitsValue(frac, 0) * PosScale) \div (10 ^ Len(frac))
  IN IF AllDigits(whole) /\ AllDigits(frac) /\ Len(whole) + Len(frac) >= 1
     THEN [ok |-> TRUE, value |-> IF signed /\ Head(str) = "-" THEN 0 - units ELSE units]
     ELSE [ok |-> FALSE, value |-> 0]

\* s.parse().unwrap_or(0.0)
parse_or_zero(str) == IF parse_f32(str).ok THEN parse_f32(str).value ELSE 0

\* mutant of max: the width is taken whatever the height
max_width(a, b) == a

\* f32::max, and the product with 0.5
max(a, b) == IF a >= b THEN a ELSE b
half(a) == a \div 2

\* the word "node"
NODE == <<"n", "o", "d", "e">>

\* the body of the loop over text.lines(): neuron_positions after one line
parse_line(positions, chars) ==
  LET parts == split_whitespace(chars)
  IN IF Len(parts) >= 1 /\ parts[1] = NODE /\ Len(parts) >= 6
     THEN LET name == strip_prefix_n(parts[2])
              idx  == parse_usize(name.rest)
          IN IF name.some /\ idx.ok /\ idx.value < Len(positions)
             THEN LET x == parse_or_zero(parts[3])
                      y == parse_or_zero(parts[4])
                      w == parse_or_zero(parts[5])
                      h == parse_or_zero(parts[6])
                  IN Put(positions, idx.value, NeuronPosition(x, y, half(max(w, h))))
             ELSE positions
     ELSE positions

\* mutant of derive_edges: end1 is the receiver's centre, end2 the source's
derive_edges_swapped(self, positions, src) ==
  LET start == GetOr(self.out_offset, src, 0)
      end   == GetOr(self.out_offset, src + 1, start)
      src_pos == At(positions, src).center
  IN [k \in 1..(IF end > start THEN end - start ELSE 0) |->
       LET tgt == At(self.receiver, start + k - 1)
       IN SynapsePosition(IF tgt < Len(positions) THEN At(positions, tgt).center
                          ELSE <<0, 0>>,
                          src_pos)]

\* the synapse positions of neuron src's outgoing synapses start..end-1
derive_edges(self, positions, src) ==
  LET start == GetOr(self.out_offset, src, 0)
      end   == GetOr(self.out_offset, src + 1, start)
      src_pos == At(positions, src).center
  IN [k \in 1..(IF end > start THEN end - start ELSE 0) |->
       LET tgt == At(self.receiver, start + k - 1)
       IN SynapsePosition(src_pos,
                          IF tgt < Len(positions) THEN At(positions, tgt).center
                          ELSE <<0, 0>>)]

\* step 4 of layout_graph: for src in src..n, on the positions pushed so far
RECURSIVE derive_synapses(_, _, _, _)
derive_synapses(self, positions, src, pushed) ==
  IF src >= Len(self.v) THEN pushed
  ELSE derive_synapses(self, positions, src + 1,
                       pushed \o derive_edges(self, positions, src))

\* mutant of fallback: no synapse position is returned
fallback_no_synapses(self) ==
  [ neurons |-> Repeat(NeuronPosition(0, 0, 0), Len(self.v)), synapses |-> <<>> ]

\* the Err(_) arm of layout_graph: zeroed neurons and synapses
fallback(self) ==
  [ neurons |-> Repeat(NeuronPosition(0, 0, 0), Len(self.v)),
    synapses |-> [k \in 1..Len(self.receiver) |-> SynapsePosition(<<0, 0>>, <<0, 0>>)] ]

\* words joined as the engine prints them: each followed by one space
RECURSIVE Spaced(_)
Spaced(words) ==
  IF words = <<>> THEN <<>> ELSE Head(words) \o <<" ">> \o Spaced(Tail(words))

\* the words of the report's lines, character by character
Word ==
  [ n0 |-> <<"n", "0">>, n1 |-> <<"n", "1">>, n3 |-> <<"n", "3">>,
    m0 |-> <<"m", "0">>, nx |-> <<"n", "x">>, n99 |-> <<"n", "9", "9">>,
    nplus1 |-> <<"n", "+", "1">>,
    edge |-> <<"e", "d", "g", "e">>, solid |-> <<"s", "o", "l", "i", "d">>,
    abc |-> <<"a", "b", "c">>,
    d1_5 |-> <<"1", ".", "5">>, d2_0 |-> <<"2", ".", "0">>,
    d12_5 |-> <<"1", "2", ".", "5">>, d7_0 |-> <<"7", ".", "0">>,
    d0_8 |-> <<"0", ".", "8">>, d0_4 |-> <<"0", ".", "4">>,
    d_2 |-> <<".", "2">>, d3 |-> <<"3">>, minus4 |-> <<"-", "4">> ]

\* "node n0 1.5 2.0 0.8 0.8 "
NodeN0 == Spaced(<<NODE, Word.n0, Word.d1_5, Word.d2_0, Word.d0_8, Word.d0_8>>)
\* "node n1 12.5 7.0 0.8 0.4 solid ": fields after the fifth
NodeN1 == Spaced(<<NODE, Word.n1, Word.d12_5, Word.d7_0, Word.d0_8, Word.d0_4, Word.solid>>)
\* "node n3 12.5 7.0 0.8 0.8 "
NodeN3 == Spaced(<<NODE, Word.n3, Word.d12_5, Word.d7_0, Word.d0_8, Word.d0_8>>)
\* "\tnode  n0 3 -4 .2 0.4 ": neuron 0 again, other blanks, height above width
NodeN0Again ==
  <<"\t">> \o Spaced(<<NODE, <<>>, Word.n0, Word.d3, Word.minus4, Word.d_2, Word.d0_4>>)
\* "edge n0 n1 3 1.5 2.0 ": not a node line
EdgeLine == Spaced(<<Word.edge, Word.n0, Word.n1, Word.d3, Word.d1_5, Word.d2_0>>)
\* the empty line
EmptyLine == <<>>
\* "node n0 1.5 2.0 0.8 ": a field short
TooFewFields == Spaced(<<NODE, Word.n0, Word.d1_5, Word.d2_0, Word.d0_8>>)
\* "node m0 1.5 2.0 0.8 0.8 ": the name does not start with n
NameNoPrefix == Spaced(<<NODE, Word.m0, Word.d1_5, Word.d2_0, Word.d0_8, Word.d0_8>>)
\* "node nx 1.5 2.0 0.8 0.8 ": no digits after the n
NameNoDigits == Spaced(<<NODE, Word.nx, Word.d1_5, Word.d2_0, Word.d0_8, Word.d0_8>>)
\* "node n99 1.5 2.0 0.8 0.8 ": an index no model here has
IndexTooLarge == Spaced(<<NODE, Word.n99, Word.d1_5, Word.d2_0, Word.d0_8, Word.d0_8>>)
\* "node n+1 1.5 2.0 0.8 0.8 ": a sign between the n and the digits
NamePlus == Spaced(<<NODE, Word.nplus1, Word.d1_5, Word.d2_0, Word.d0_8, Word.d0_8>>)
\* "node n0 abc 2.0 0.8 0.8 ": x is not a number
XNotNumber == Spaced(<<NODE, Word.n0, Word.abc, Word.d2_0, Word.d0_8, Word.d0_8>>)

\* the lines the engine's report is made of
ReportLines ==
  { NodeN0, NodeN1, NodeN3, NodeN0Again, EdgeLine, EmptyLine, TooFewFields,
    NameNoPrefix, NameNoDigits, IndexTooLarge, NamePlus, XNotNumber }

\* the reports of at most MaxLines lines
Texts == UNION {[1..len -> ReportLines] : len \in 0..MaxLines}

\* exec(..) returned Err(_): layout_graph returns the fallback (render.rs:125)
ExecErr ==
  /\ layout_pc = "idle"
  /\ neuron_positions' = fallback(model).neurons
  /\ synapse_positions' = fallback(model).synapses
  /\ layout_pc' = "fallback"
  /\ UNCHANGED <<text, parsed, fields, hist, phases, fired, app>>

\* exec(..) returned Ok(bytes) with the lines report; every position is zeroed
ExecOk(report) ==
  /\ layout_pc = "idle"
  /\ text' = report
  /\ neuron_positions' = Repeat(NeuronPosition(0, 0, 0), Len(v))
  /\ layout_pc' = "parse"
  /\ UNCHANGED <<parsed, synapse_positions, fields, hist, phases, fired, app>>

\* one round of the loop over text.lines()
ParseLine ==
  /\ layout_pc = "parse"
  /\ parsed < Len(text)
  /\ neuron_positions' = parse_line(neuron_positions, text[parsed + 1])
  /\ parsed' = parsed + 1
  /\ UNCHANGED <<layout_pc, text, synapse_positions, fields, hist, phases, fired, app>>

\* the loop is over: step 4 derives the synapse positions and layout_graph
\* returns (neuron_positions, synapse_positions)
Derive ==
  /\ layout_pc = "parse"
  /\ parsed = Len(text)
  /\ synapse_positions' = derive_synapses(model, neuron_positions, 0, <<>>)
  /\ layout_pc' = "returned"
  /\ UNCHANGED <<text, parsed, neuron_positions, fields, hist, phases, fired, app>>

LayoutNext ==
  \/ ExecErr
  \/ \E report \in Texts : ExecOk(report)
  \/ ParseLine
  \/ Derive

\* layout_graph called on a model as a constructor returned it
LayoutSpec == Init /\ [][LayoutNext]_vars

\* what layout_graph returns
Returned == layout_pc \in {"fallback", "returned"}

\* the line the parsing loop reads in this step
LineRead == text[parsed + 1]
\* the parsing loop reads one line in this step
ReadsLine == layout_pc = "parse" /\ parsed' = parsed + 1

\* C21. Layout fallback.  When the layout engine's invocation fails,
\* layout_graph returns n neuron positions, each with center (0, 0) and
\* radius 0, and e synapse positions, each with end1 = end2 = (0, 0).
C21_LayoutFallback ==
  layout_pc = "fallback" =>
    /\ Len(neuron_positions) = BuiltNeurons
    /\ \A k \in 1..Len(neuron_positions) :
         neuron_positions[k].center = <<0, 0>> /\ neuron_positions[k].radius = 0
    /\ Len(synapse_positions) = Len(state)
    /\ \A k \in 1..Len(synapse_positions) :
         synapse_positions[k].end1 = <<0, 0>> /\ synapse_positions[k].end2 = <<0, 0>>

\* C21 witness: the engine failed for a model with neurons and synapses
C21_Witness ==
  /\ layout_pc = "fallback"
  /\ Built = Call("grid", 2, 2, "ok")
  /\ Len(neuron_positions) = 4
  /\ Len(synapse_positions) = 8

\* the well-formed node lines of ReportLines and what they say: neuron k,
\* x, y, and max(w, h) / 2
WellFormed ==
  { [chars |-> NodeN0, k |-> 0, x |-> 150, y |-> 200, radius |-> 40],
    [chars |-> NodeN1, k |-> 1, x |-> 1250, y |-> 700, radius |-> 40],
    [chars |-> NodeN3, k |-> 3, x |-> 1250, y |-> 700, radius |-> 40],
    [chars |-> NodeN0Again, k |-> 0, x |-> 300, y |-> 0 - 400, radius |-> 20] }

\* C22. Position parsing.  A line 'node n<k> <x> <y> <w> <h> ...' with k < n
\* and numeric fields sets neuron k's position to center (x, y), radius
\* max(w, h) / 2, whatever it was (so the last line naming k wins), and
\* changes no other position; 'node n3 12.5 7.0 0.8 0.8 ' gives center
\* (12.5, 7.0), radius 0.4; a line whose first word is not 'node' changes
\* no position.
C22_PositionParsing ==
  [][ReadsLine =>
       /\ \A l \in WellFormed :
            (LineRead = l.chars /\ l.k < Len(neuron_positions))
              => neuron_positions'
                   = Put(neuron_positions, l.k, NeuronPosition(l.x, l.y, l.radius))
       /\ (LineRead = NodeN3 /\ Len(neuron_positions) > 3)
            => At(neuron_positions', 3) = NeuronPosition(1250, 700, 40)
       /\ LineRead \in {EdgeLine, EmptyLine} => neuron_positions' = neuron_positions]_vars

\* C22 witness: two lines naming neuron 0 have been read and the second won
C22_Witness ==
  /\ layout_pc = "parse" /\ parsed = 2
  /\ text = <<NodeN0, NodeN0Again>>
  /\ Len(neuron_positions) >= 2
  /\ At(neuron_positions, 0) = NeuronPosition(300, 0 - 400, 20)
  /\ At(neuron_positions, 1) = NeuronPosition(0, 0, 0)

\* the node lines of ReportLines that are not 'node n<k> <x> <y> <w> <h>'
\* with numbers for x, y, w and h
Malformed == {TooFewFields, NameNoPrefix, NameNoDigits, IndexTooLarge, XNotNumber}

\* C23 (as claimed).  A malformed node line (too few fields, a name that is
\* not n<digits>, an index >= n, a non-numeric x, y, width or height) leaves
\* every neuron's position as it was.
C23_MalformedSkipped ==
  [][(ReadsLine /\ LineRead \in Malformed)
       => neuron_positions' = neuron_positions]_vars

\* C24. Synapse positions.  layout_graph returns e synapse positions; the
\* k-th has end1 at the returned center of the source of synapse k (CSR
\* order) and end2 at the returned center of its receiver.
C24_SynapsePositions ==
  Returned =>
    /\ Len(synapse_positions) = Len(receiver)
    /\ \A j \in Synapses :
         /\ At(synapse_positions, j).end1 = At(neuron_positions, Source(j)).center
         /\ At(synapse_positions, j).end2
              = (IF At(receiver, j) < Len(neuron_positions)
                 THEN At(neuron_positions, At(receiver, j)).center
                 ELSE <<0, 0>>)

\* C24 witness: layout_graph returned for grid(2, 2) with neurons 0 and 3
\* placed, so that synapse 2 (1 -> 3) runs from (0, 0) to neuron 3's center
C24_Witness ==
  /\ layout_pc = "returned"
  /\ Built = Call("grid", 2, 2, "ok")
  /\ text = <<NodeN0, NodeN3>>
  /\ Len(synapse_positions) = 8
  /\ At(synapse_positions, 2) = SynapsePosition(<<0, 0>>, <<1250, 700>>)
  /\ At(synapse_positions, 0).end1 = <<150, 200>>

\* C25. get_charge reads back set_charge.  Right after set_charge(i, c) with
\* i < n, get_charge(i) returns c, whatever the potential was before: a
\* second set_charge(i, c') overwrites and does not accumulate.
C25_ReadBack ==
  (LastCall.op = "set_charge" /\ LastCall.result = "ok") =>
    /\ get_charge(model, LastCall.x).result = "ok"
    /\ get_charge(model, LastCall.x).value = LastCall.y

\* C25 witness: set_charge(0, 1.0) then set_charge(0, 2.0); get_charge(0)
\* returns 2.0
C25_Witness ==
  /\ Len(hist) = 3
  /\ hist[2] = Call("set_charge", 0, Scale, "ok")
  /\ hist[3] = Call("set_charge", 0, 2 * Scale, "ok")
  /\ get_charge(model, 0).value = 2 * Scale

\* C26 (as claimed).  A neuron that fires in tick T fires in none of the
\* ticks T + 1 .. T + refrac_len.
C26_RefractoryPeriod ==
  \A t \in 1..Len(fired) : \A d \in 1..refrac_len :
    t + d <= Len(fired) => fired[t] \cap fired[t + d] = {}

\* ------------------------------------------------------------- tick, any order
\* The loops of Model::tick run over their indices in the order a sequence
\* gives: round k of a loop works on index order[k].

\* the code's order 0, 1, .., len - 1 backwards, and started at 1 and
\* wrapped round
Reversed(len) == [k \in 1..len |-> len - k]
Rotated(len) == [k \in 1..len |-> k % len]

\* 1) Reset spiked neurons, leak the others
RECURSIVE phase1_in(_, _, _)
phase1_in(order, k, self) ==
  IF k > Len(self.spiked) THEN self
  ELSE LET i == order[k]
       IN phase1_in(order, k + 1,
            IF At(self.spiked, i)
            THEN [self EXCEPT !.v = Put(@, i, At(self.v_reset, i)),
                              !.refrac = Put(@, i, self.refrac_len),
                              !.spiked = Put(@, i, FALSE)]
            ELSE [self EXCEPT !.v = Put(@, i, leak(At(self.v, i), self.alpha))])

\* 2) Update refrac for neurons
RECURSIVE phase2_in(_, _, _)
phase2_in(order, k, self) ==
  IF k > Len(self.refrac) THEN self
  ELSE LET i == order[k]
       IN phase2_in(order, k + 1,
            [self EXCEPT !.refrac = Put(@, i, saturating_sub_1(At(self.refrac, i)))])

\* 3) Deliver pending synapses
RECURSIVE phase3_in(_, _, _)
phase3_in(order, k, self) ==
  IF k > Len(self.state) THEN self
  ELSE LET i == order[k]
           recv == At(self.receiver, i)
       IN phase3_in(order, k + 1,
            IF At(self.state, i) = 1
            THEN [self EXCEPT !.v = Put(@, recv, At(self.v, recv) + At(self.weight, i)),
                              !.state = Put(@, i, 0)]
            ELSE self)

\* the weights of synapses j..end-1 added to their receivers at once
RECURSIVE deliver_now(_, _, _)
deliver_now(j, end, self) ==
  IF j >= end THEN self
  ELSE LET recv == At(self.receiver, j)
       IN deliver_now(j + 1, end,
            [self EXCEPT !.v = Put(@, recv, At(self.v, recv) + At(self.weight, j))])

\* mutant of phase4_in: a spike is delivered to its receivers in the loop
\* that detects it, instead of arming the synapses for the next tick
RECURSIVE phase4_in_same_tick(_, _, _)
phase4_in_same_tick(order, k, self) ==
  IF k > Len(self.v) THEN self
  ELSE LET i == order[k]
       IN phase4_in_same_tick(order, k + 1,
            IF spikes(i, self)
            THEN deliver_now(At(self.out_offset, i), At(self.out_offset, i + 1),
                             [self EXCEPT !.spiked = Put(@, i, TRUE)])
            ELSE self)

\* 4) Update spikes and arm synapses for next tick
RECURSIVE phase4_in(_, _, _)
phase4_in(order, k, self) ==
  IF k > Len(self.v) THEN self
  ELSE LET i == order[k]
       IN phase4_in(order, k + 1,
            IF spikes(i, self)
            THEN [self EXCEPT !.spiked = Put(@, i, TRUE),
                              !.state = arm(At(self.out_offset, i),
                                            At(self.out_offset, i + 1), @)]
            ELSE self)

\* tick() with its loops in the given orders is called at most MaxOrderTicks
\* times
MaxOrderTicks == 2

\* model.tick() with the neuron loops of phases 1, 2 and 4 run in
\* neurons_order and the synapse loop of phase 3 in synapses_order
TickInOrder(neurons_order, synapses_order) ==
  /\ ~Panicked
  /\ Ticks < MaxOrderTicks
  /\ LET p1 == phase1_in(neurons_order, 1, model)
         p2 == phase2_in(neurons_order, 1, p1)
         p3 == phase3_in(synapses_order, 1, p2)
         p4 == phase4_in(neurons_order, 1, p3)
     IN /\ Becomes(p4)
        /\ phases' = <<Dyn(model), Dyn(p1), Dyn(p2), Dyn(p3), Dyn(p4)>>
        /\ fired' = Append(fired, {i \in 0..(Len(v) - 1) : spikes(i, p3)})
  /\ hist' = Append(hist, Call("tick", 0, 0, "ok"))
  /\ UNCHANGED <<layout, app>>

\* the ways the loops of one tick() are ordered, <<the order of the neuron
\* loops, the order of the synapse loop>>: all backwards, or all rotated
LoopOrders ==
  { <<Reversed(Len(v)), Reversed(Len(state))>>,
    <<Rotated(Len(v)), Rotated(Len(state))>> }

OrderNext ==
  \/ \E loops \in LoopOrders : TickInOrder(loops[1], loops[2])
  \/ \E neuron \in 0..MaxNeuronArg, charge \in Charges : SetCharge(neuron, charge)

\* the model driven by set_charge and by tick() with its loops reordered
OrderSpec == Init /\ [][OrderNext]_vars

\* the model as the latest tick() found it
EntryModel ==
  [model EXCEPT !.v = AtEntry.v, !.refrac = AtEntry.refrac,
                !.spiked = AtEntry.spiked, !.state = AtEntry.state]

\* C27. Iteration-order independence.  When tick() has run with the neuron
\* loops of phases 1, 2 and 4 and the synapse loop of phase 3 backwards or
\* rotated, the model after each of its phases is the one tick() reaches
\* with its loops in the code's order 0, 1, ...
C27_OrderIndependent ==
  LastCall.op = "tick" =>
    LET ph == tick_phases(EntryModel)
    IN /\ phases = <<AtEntry, Dyn(ph[1]), Dyn(ph[2]), Dyn(ph[3]), Dyn(ph[4])>>
       /\ model = ph[4]

\* C27 witness: a reordered tick() has delivered two armed synapses into one
\* neuron and made two neurons spike
C27_Witness ==
  /\ LastCall.op = "tick"
  /\ \E j1, j2 \in Delivered : j1 # j2 /\ At(receiver, j1) = At(receiver, j2)
  /\ \E i1, i2 \in FiredLast : i1 # i2

\* the charges of a single injection: 0.0, 0.1, .., 3.0
InjectedCharges == {(tenths * Scale) \div 10 : tenths \in 0..30}

\* set_charge(i, c) on the model a constructor call returned, then two
\* ticks: neuron i does not spike in the first and spikes in the second
LateCrossing(call, i, c) ==
  LET injected == set_charge(Construct(call), i, c).self
      first    == tick_phases(injected)
      second   == tick_phases(first[4])
  IN ~spikes(i, first[3]) /\ spikes(i, second[3])

\* C28 (as claimed).  Among the models a constructor returns there is a
\* scenario in which, after one set_charge on a neuron and no other input to
\* it, the neuron does not spike in the first tick after the injection and
\* spikes in the second.
C28_LateCrossing ==
  Len(hist) = 1 =>
    \E call \in Constructions :
      \E i \in 0..(Len(Construct(call).v) - 1), c \in InjectedCharges :
        LateCrossing(call, i, c)

\* neuron i is delivered a weight in tick t: a synapse into i was armed by
\* its source's spike in tick t - 1
InputTo(i, t) ==
  /\ t > 1
  /\ \E j \in Synapses : At(receiver, j) = i /\ Source(j) \in fired[t - 1]

\* the latest three calls were set_charge(i, c) with i < n, tick, tick
InjectedThenTwoTicks ==
  /\ Len(hist) >= 4
  /\ hist[Len(hist) - 2].op = "set_charge" /\ hist[Len(hist) - 2].result = "ok"
  /\ hist[Len(hist) - 1].op = "tick"
  /\ hist[Len(hist)].op = "tick"

\* C28 (amended).  After set_charge on a neuron and two ticks in which
\* nothing is delivered to it, the neuron has not spiked in the second tick
\* unless it spiked in the first: an injection the leak keeps below
\* threshold in the first tick does not cross it later.
C28_NoLateCrossing ==
  InjectedThenTwoTicks =>
    LET i == hist[Len(hist) - 2].x
        t == Len(fired)
    IN (~InputTo(i, t - 1) /\ ~InputTo(i, t))
         => (i \in fired[t] => i \in fired[t - 1])

\* C28 witness: set_charge(0, 1.0), tick, tick with nothing delivered to
\* neuron 0: the leak takes 1.0 to 0.9 and 0.81 and neuron 0 spikes in neither
C28_Witness ==
  /\ InjectedThenTwoTicks
  /\ hist[Len(hist) - 2] = Call("set_charge", 0, Scale, "ok")
  /\ ~InputTo(0, Len(fired) - 1) /\ ~InputTo(0, Len(fired))
  /\ 0 \notin fired[Len(fired) - 1] /\ 0 \notin fired[Len(fired)]
  /\ At(v, 0) = (81 * Scale) \div 100

\* C29. The synapse flag is binary: in every state reached from a
\* constructor by set_charge and tick calls, state[j] is 0 or 1 for every
\* synapse j.
C29_StateBinary == \A j \in Synapses : At(state, j) \in {0, 1}

\* C29 witness: after two ticks some synapses are armed and some are idle
C29_Witness ==
  /\ Ticks >= 2
  /\ \E j \in Synapses : At(state, j) = 1
  /\ \E j \in Synapses : At(state, j) = 0
  /\ Delivered # {}

\* C30. A spiking neuron i with no outgoing synapses changes only its own
\* spiked flag: phase 4 of that tick changes no potential and no refractory
\* counter, every other flag it sets and every synapse it arms belongs to
\* another neuron that spiked, and if i is the only neuron that spiked,
\* phase 4 changes nothing but spiked[i].
C30_NoOutgoing ==
  Ticked =>
    \A i \in FiredLast :
      Outgoing(i) = {} =>
        /\ At(After4.spiked, i)
        /\ After4.v = After3.v /\ After4.refrac = After3.refrac
        /\ \A k \in Neurons \ {i} :
             At(After4.spiked, k) # At(After3.spiked, k) => k \in FiredLast
        /\ \A j \in Synapses :
             At(After4.state, j) # At(After3.state, j) => Source(j) \in FiredLast \ {i}
        /\ FiredLast = {i}
             => After4 = [After3 EXCEPT !.spiked = Put(@, i, TRUE)]

\* C30 witness: the last neuron of line(3) is the only one to spike in a tick
C30_Witness ==
  /\ LastCall.op = "tick"
  /\ Built = Call("line", 3, 0, "ok")
  /\ FiredLast = {2}
  /\ Outgoing(2) = {}
  /\ After4.state = After3.state
  /\ At(After4.spiked, 2) /\ ~At(After3.spiked, 2)

\* every v is 0, no spiked flag is set, every refrac is 0, no synapse is armed
Quiescent ==
  /\ \A i \in Neurons : At(v, i) = 0 /\ ~At(spiked, i) /\ At(refrac, i) = 0
  /\ \A j \in Synapses : At(state, j) = 0

\* C31. Quiescent fixed point.  tick() leaves a quiescent model as it is; a
\* freshly constructed model is quiescent, so while no set_charge has been
\* made the model is the one the constructor returned and no neuron has
\* spiked, however many ticks have run.
C31_QuiescentFixedPoint ==
  /\ Quiescent => tick(model) = model
  /\ Len(hist) = 1 => Quiescent
  /\ (Calls = 0 /\ ~Panicked) =>
       /\ model = Construct(Built)
       /\ \A t \in 1..Len(fired) : fired[t] = {}

\* C31 witness: three ticks on a fresh grid(2, 2) and no set_charge
C31_Witness ==
  /\ Built = Call("grid", 2, 2, "ok")
  /\ Calls = 0 /\ Ticks = 3
  /\ Quiescent
  /\ fired = <<{}, {}, {}>>

\* C32. Spike flag and armed synapses agree: in every reachable state, for
\* every synapse j with source neuron i, state[j] = 1 iff spiked[i].
C32_FlagAndArmedAgree ==
  \A j \in Synapses : (At(state, j) = 1) <=> At(spiked, Source(j))

\* C32 witness: after a delivery, a neuron with its flag set and armed
\* synapses next to a neuron with its flag clear and idle synapses
C32_Witness ==
  /\ Ticks >= 2
  /\ Delivered # {}
  /\ \E j \in Synapses : At(state, j) = 1 /\ At(spiked, Source(j))
  /\ \E j \in Synapses : At(state, j) = 0 /\ ~At(spiked, Source(j))

\* C33. set_charge(i, c) with i < n changes only v[i].  Every step that
\* appends a successful set_charge(i, c) to the history writes c to v[i] and
\* leaves v of every other neuron, refrac, spiked, state and the topology
\* and parameters as they were, a pending flag or armed synapses of neuron i
\* included.
C33_SetChargeFrame ==
  [][ (/\ hist' # hist
       /\ hist'[Len(hist')].op = "set_charge"
       /\ hist'[Len(hist')].result = "ok")
      => LET i == hist'[Len(hist')].x
             c == hist'[Len(hist')].y
         IN /\ i < Len(v)
            /\ v' = Put(v, i, c)
            /\ \A k \in Neurons \ {i} : At(v', k) = At(v, k)
            /\ UNCHANGED <<alpha, v_th, v_reset, refrac, refrac_len, spiked,
                           out_offset, receiver, weight, state>> ]_vars

\* C33 witness: a set_charge has just been made on a neuron whose spiked flag
\* is pending and whose outgoing synapses are armed; both are still so
C33_Witness ==
  /\ LastCall.op = "set_charge" /\ LastCall.result = "ok"
  /\ Ticks >= 1
  /\ At(spiked, LastCall.x)
  /\ At(v, LastCall.x) = LastCall.y
  /\ \E j \in Outgoing(LastCall.x) : At(state, j) = 1

\* the neurons that received a successful set_charge between the latest
\* tick() and the tick() before it (or the constructor)
InjectedBeforeTick ==
  {i \in Neurons :
     \E k \in 2..(Len(hist) - 1) :
       /\ hist[k].op = "set_charge" /\ hist[k].result = "ok" /\ hist[k].x = i
       /\ \A l \in k..(Len(hist) - 1) : hist[l].op # "tick"}

\* the armed synapses that phase 3 of the latest tick() delivered to neuron i
DeliveredTo(i) == {j \in Delivered : At(receiver, j) = i}

SingleInjectionOnLine ==
  /\ Built.op = "line"
  /\ Calls = 1
  /\ ~Panicked
  /\ \E k \in 2..Len(hist) : hist[k].op = "set_charge" /\ hist[k].x = 0

\* C35. No propagation from a single injection on a line.  On a fresh
\* line(count), after exactly one set_charge(0, c) and any number of ticks,
\* neuron 0 has spiked at most once and no neuron i >= 1 has spiked; v[1] is
\* at most 0.5 and v[i] is 0 for i >= 2.
C35_NoPropagation ==
  SingleInjectionOnLine =>
    /\ Cardinality({t \in 1..Len(fired) : 0 \in fired[t]}) <= 1
    /\ \A t \in 1..Len(fired) : fired[t] \subseteq {0}
    /\ \A i \in Neurons : i = 1 => At(v, i) <= Scale \div 2
    /\ \A i \in Neurons : i >= 2 => At(v, i) = 0

\* C35 witness: line(3), set_charge(0, 2.0) and three ticks: neuron 0 spiked
\* in the first, neuron 1 received 0.5 in the second and has leaked since
C35_Witness ==
  /\ hist = <<Call("line", 3, 0, "ok"), Call("set_charge", 0, 2 * Scale, "ok"),
              Call("tick", 0, 0, "ok"), Call("tick", 0, 0, "ok"),
              Call("tick", 0, 0, "ok")>>
  /\ fired = <<{0}, {}, {}>>
  /\ At(v, 1) = leak(DEFAULT_SYNAPSE_WEIGHT, alpha)
  /\ At(v, 2) = 0

\* ------------------------------------------------------------- the App
\* the clock is followed for MaxClock tick intervals
MaxClock == 3

\* how long the event loop may leave the App between two events, in ms
Delays == {MODEL_TICK_INTERVAL \div 2, MODEL_TICK_INTERVAL - 1, MODEL_TICK_INTERVAL}

\* how far the clock may move between the test of elapsed() and the
\* Instant::now() that is stored into last_model_tick, in ms
Drifts == {0, 1}

\* App::new builds a grid (20 by 20 in the source, as small as the bounds
\* allow here), hands it to renderer.set_model and reads the clock
AppInit == Init /\ hist[1].op = "grid"

\* time passes between two events
Elapse(d) ==
  /\ clock + d <= MaxClock * MODEL_TICK_INTERVAL
  /\ clock' = clock + d
  /\ UNCHANGED <<fields, hist, phases, fired, layout, last_update,
                 last_model_tick, cpu_neuron_vs, cpu_synapse_states>>

\* WindowEvent::RedrawRequested: self.update(); self.renderer.render().
\* update() stores the clock in last_update and, if the interval has elapsed,
\* stores the clock in last_model_tick and calls tick_model(); render() draws
\* from the renderer's copies and changes none of them.  The camera and the
\* input manager are left out.
Redraw(drift) ==
  /\ clock + drift <= MaxClock * MODEL_TICK_INTERVAL + 1
  /\ last_update' = clock
  /\ IF tick_due(clock - last_model_tick)
     THEN LET r == tick_model(model, [neuron_vs |-> cpu_neuron_vs,
                                      synapse_states |-> cpu_synapse_states])
          IN /\ clock' = clock + drift
             /\ last_model_tick' = clock + drift
             /\ Becomes(r.model)
             /\ cpu_neuron_vs' = r.renderer.neuron_vs
             /\ cpu_synapse_states' = r.renderer.synapse_states
             /\ phases' = <<Dyn(model), Dyn(r.phases[1]), Dyn(r.phases[2]),
                            Dyn(r.phases[3]), Dyn(r.phases[4])>>
             /\ fired' = Append(fired, {i \in 0..(Len(v) - 1) : spikes(i, r.phases[3])})
             /\ hist' = Append(hist, Call("tick", 0, 0, "ok"))
     ELSE UNCHANGED <<fields, hist, phases, fired, clock, last_model_tick,
                      cpu_neuron_vs, cpu_synapse_states>>
  /\ UNCHANGED layout

AppNext ==
  \/ \E d \in Delays : Elapse(d)
  \/ \E drift \in Drifts : Redraw(drift)

AppSpec == AppInit /\ [][AppNext]_vars

\* the renderer's CPU copies are what the model's views return
Mirrors ==
  /\ cpu_neuron_vs = neuron_vs(model)
  /\ cpu_synapse_states = synapse_states(model)

\* C36. The renderer mirrors the model.  From App::new on, whenever the App
\* is between two events (every render is the end of one), the renderer's CPU
\* copies of neuron_vs and synapse_states equal model.neuron_vs() and
\* model.synapse_states(); one update ticks the model at most once, and only
\* when the clock it reads is at least 500 ms past last_model_tick, the time
\* stored at the previous tick (at App::new before the first), so two ticks
\* are stored at least 500 ms apart.
C36_RendererMirrors ==
  /\ []Mirrors
  /\ [][ /\ Ticks' <= Ticks + 1
         /\ Ticks' = Ticks + 1 =>
              /\ clock - last_model_tick >= MODEL_TICK_INTERVAL
              /\ last_model_tick' - last_model_tick >= MODEL_TICK_INTERVAL
              /\ last_update' = clock
              /\ Mirrors' ]_vars

\* C36 witness: a render has just followed the second tick of a grid(2, 2),
\* and the copies hold its four potentials and eight synapse states
C36_Witness ==
  /\ Built = Call("grid", 2, 2, "ok")
  /\ Ticks = 2
  /\ last_update <= clock /\ last_model_tick = clock
  /\ Len(cpu_neuron_vs) = 4 /\ Len(cpu_synapse_states) = 8
  /\ Mirrors

====
